---- MODULE Spec2Model ----
(***************************************************************************)
(* Model of the edit planner of eluo28/reflect                             *)
(* (backend/src/edit_planner/service.py).                                  *)
(*                                                                         *)
(* Times are exact integers counted in ticks of 1/20 second, the largest   *)
(* unit in which every constant of the code is whole: 0.05 s = 1 tick,     *)
(* 0.25 s = 5, 0.5 s = 10, 2.0 s = 40, 3.0 s = 60.  The code computes in   *)
(* binary floating point; the model computes the same expressions over     *)
(* exact values, so rounding error (at most a few ulp) is not modelled.    *)
(***************************************************************************)
EXTENDS Integers, Sequences, FiniteSets, TLC

VARIABLES
    manifest,               \* assembly_input.manifest: audio asset and clips
    style,                  \* assembly_input.style_profile (present or not)
    pc,                     \* position of assemble(): start/classify/loop/done/raised
    chunk_boundaries,       \* assemble local
    clip_classifications,   \* assemble local: clip_index -> classification
    chunk_idx,              \* loop variable of "for chunk_idx in range(total_chunks)"
    clip_cursor,            \* assemble local
    timeline_cursor,        \* assemble local
    chunk_decisions_list,   \* assemble local: one ChunkDecisions per processed chunk
    chunk_locals,           \* locals of the most recent loop iteration
    blueprint,              \* the TimelineBlueprint returned (<<>> until returned)
    api_semaphore,          \* module global _api_semaphore: <<>> (None) or <<value, loop>>
    tasks,                  \* the coroutines of the running gather: clip_index -> task
    fanout,                 \* which asyncio.run is active: "none"/"classify"/"cut"
    ducking,                \* locals of _create_audio_track_with_ducking (executor)
    completed,              \* clip indices of the running gather, in completion order
    job                     \* the JobDocument, the requests on it and its JobRunners

planVars == <<manifest, style, pc, chunk_boundaries, clip_classifications, chunk_idx,
              clip_cursor, timeline_cursor, chunk_decisions_list, chunk_locals,
              blueprint>>
gateVars == <<api_semaphore, tasks, fanout>>
vars == <<manifest, style, pc, chunk_boundaries, clip_classifications, chunk_idx,
          clip_cursor, timeline_cursor, chunk_decisions_list, chunk_locals,
          blueprint, api_semaphore, tasks, fanout, ducking,
          completed, job>>

-----------------------------------------------------------------------------
(* Program constants, in ticks of 1/20 s (counts are plain numbers).       *)

MAX_CONCURRENT_API_CALLS == 2
MAX_RETRIES == 3
DEFAULT_TARGET_CUT_DURATION == 60
BEAT_PADDING == 40
FALLBACK_DURATION == 10
MIN_BEAT_SPAN == 5
NEXT_BEAT_TOLERANCE == 1

(* Bounds of the model.                                                    *)
MaxClips == 2
MaxChops == 2
MaxGateClips == 3

-----------------------------------------------------------------------------
(* Helpers: Python builtins.                                               *)

Max(a, b) == IF a >= b THEN a ELSE b
Min(a, b) == IF a <= b THEN a ELSE b

\* abs(x)
Abs(x) == IF x < 0 THEN 0 - x ELSE x

\* Non-decreasing sequences of length n over the finite set S of numbers.
RECURSIVE NonDecSeqs(_, _)
NonDecSeqs(S, n) ==
    IF n = 0 THEN {<<>>}
    ELSE {Append(s, x) : s \in NonDecSeqs(S, n - 1), x \in S} \cap
         {s \in [1..n -> S] : \A i \in 1..(n - 1) : s[i] <= s[i + 1]}

NonDecSeqsUpTo(S, n) == UNION {NonDecSeqs(S, k) : k \in 0..n}

-----------------------------------------------------------------------------
(* The chunker: assemble(), lines 115-128 and 158-195.                     *)

\* style.beats_per_cut if style else None; None is modelled as 0 (both falsy).
BeatsPerCut(st) == IF st.present THEN st.beats_per_cut ELSE 0

\* variant of BeatBoundaries that forgets "i > 0" and also cuts at the first beat
RECURSIVE BeatBoundariesFromZero(_, _, _)
BeatBoundariesFromZero(beat_grid, beats_per_cut, i) ==
    IF i >= Len(beat_grid) THEN <<>>
    ELSE (IF i % beats_per_cut = 0 THEN <<beat_grid[i + 1]>> ELSE <<>>)
         \o BeatBoundariesFromZero(beat_grid, beats_per_cut, i + 1)

\* for i, beat in enumerate(beat_grid): if i > 0 and i % beats_per_cut == 0: append
RECURSIVE BeatBoundaries(_, _, _)
BeatBoundaries(beat_grid, beats_per_cut, i) ==
    IF i >= Len(beat_grid) THEN <<>>
    ELSE (IF i > 0 /\ i % beats_per_cut = 0 THEN <<beat_grid[i + 1]>> ELSE <<>>)
         \o BeatBoundaries(beat_grid, beats_per_cut, i + 1)

ChunkBoundaries(st, beat_grid, chop_points, duration_seconds) ==
    IF BeatsPerCut(st) # 0 /\ beat_grid # <<>>
    THEN <<0>> \o BeatBoundaries(beat_grid, BeatsPerCut(st), 0) \o <<duration_seconds>>
    ELSE <<0>> \o chop_points \o <<duration_seconds>>

\* beats within the chunk, with 2 s of padding on both sides
ChunkBeats(beat_grid, chunk_start, chunk_end) ==
    SelectSeq(beat_grid,
              LAMBDA b : (chunk_start - BEAT_PADDING) <= b /\ b <= (chunk_end + BEAT_PADDING))

TargetCutDuration(st) ==
    IF st.present THEN st.avg_clip_duration_seconds ELSE DEFAULT_TARGET_CUT_DURATION

\* variant of TargetClipCount whose cap is the bare floor, without max(1, ...)
TargetClipCountFloorCap(chunk_duration, st, remaining_clips, remaining_chunks) ==
    LET target_clip_count == Max(1, chunk_duration \div TargetCutDuration(st))
        clips_per_chunk == remaining_clips \div remaining_chunks
    IN  Min(target_clip_count, clips_per_chunk)

\* lines 180-184: int() truncates, which is floor for the non-negative quotient
TargetClipCount(chunk_duration, st, remaining_clips, remaining_chunks) ==
    LET target_clip_count == Max(1, chunk_duration \div TargetCutDuration(st))
        clips_per_chunk == Max(1, remaining_clips \div remaining_chunks)
    IN  Min(target_clip_count, clips_per_chunk)

\* line 185: the quotient is kept exact, as numerator and denominator
TargetAvgDuration(chunk_duration, target_clip_count) ==
    IF target_clip_count > 0 THEN <<chunk_duration, target_clip_count>>
    ELSE <<chunk_duration, 1>>

-----------------------------------------------------------------------------
(* Beat snapping: _snap_to_nearest_beat and _snap_to_next_beat.            *)

\* min(beats, key=lambda b: abs(b - time_seconds)): the first nearest element
_snap_to_nearest_beat(time_seconds, beats) ==
    IF beats = <<>> THEN time_seconds
    ELSE LET i == CHOOSE i \in 1..Len(beats) :
                    /\ \A j \in 1..Len(beats) :
                          Abs(beats[i] - time_seconds) <= Abs(beats[j] - time_seconds)
                    /\ \A j \in 1..(i - 1) :
                          Abs(beats[j] - time_seconds) > Abs(beats[i] - time_seconds)
         IN  beats[i]

SeqMin(s) == CHOOSE x \in {s[i] : i \in 1..Len(s)} : \A i \in 1..Len(s) : x <= s[i]
SeqMax(s) == CHOOSE x \in {s[i] : i \in 1..Len(s)} : \A i \in 1..Len(s) : x >= s[i]

_snap_to_next_beat(time_seconds, beats) ==
    IF beats = <<>> THEN time_seconds
    ELSE LET future_beats ==
                 SelectSeq(beats, LAMBDA b : b >= time_seconds - NEXT_BEAT_TOLERANCE)
         IN  IF future_beats # <<>> THEN SeqMin(future_beats) ELSE SeqMax(beats)

-----------------------------------------------------------------------------
(* _create_cut_decisions, lines 368-440: the sequential pass.              *)

\* align_to_beats = style.prefer_beat_alignment if style else True
AlignToBeats(st) == IF st.present THEN st.prefer_beat_alignment ELSE TRUE

\* lines 382-386: validate and clamp the cut points of the judgment call
ClampSourceIn(cut_points) == Max(0, cut_points.source_in_seconds)

ClampSourceOut(cut_points, duration_seconds) ==
    LET source_in == ClampSourceIn(cut_points)
        source_out == Min(duration_seconds, cut_points.source_out_seconds)
    IN  IF source_out <= source_in
        THEN Min(duration_seconds, source_in + FALLBACK_DURATION)
        ELSE source_out

\* variant of BeatBranch that also snaps dialogue clips
BeatBranchAnyClip(align_to_beats, chunk_beats, is_dialogue) ==
    align_to_beats /\ chunk_beats # <<>>

\* line 391: the guard of the beat-alignment branch
BeatBranch(align_to_beats, chunk_beats, is_dialogue) ==
    align_to_beats /\ chunk_beats # <<>> /\ ~is_dialogue

\* lines 406-407: source_out follows the beat-aligned duration, within the clip
SnappedSourceOut(duration_seconds, source_in, new_clip_duration) ==
    Min(duration_seconds, source_in + new_clip_duration)

\* variant of ClipDurationAfterSnap that keeps the beat-aligned duration although
\* source_out was clamped to the clip
ClipDurationStale(source_in, source_out, new_clip_duration) == new_clip_duration

\* line 408: clip_duration is recomputed from the clamped source_out
ClipDurationAfterSnap(source_in, source_out, new_clip_duration) ==
    source_out - source_in

\* line 415: timeline_out = current_timeline + clip_duration
TimelineOut(current_timeline, clip_duration) == current_timeline + clip_duration

\* One iteration of "for clip in passing_clips" (lines 373-438): the CutDecision.
MakeDecision(clip_index, clip, classification, cut_points, current_timeline, align_to_beats, chunk_beats, chunk_index) ==
    LET is_dialogue == classification = "DIALOGUE"
        source_in == ClampSourceIn(cut_points)
        source_out0 == ClampSourceOut(cut_points, clip.duration_seconds)
        clip_duration0 == source_out0 - source_in
        timeline_in_beat == _snap_to_nearest_beat(current_timeline, chunk_beats)
        timeline_out_ideal == timeline_in_beat + clip_duration0
        timeline_out_beat == _snap_to_next_beat(timeline_out_ideal, chunk_beats)
        snapped == /\ BeatBranch(align_to_beats, chunk_beats, is_dialogue)
                   /\ timeline_out_beat - timeline_in_beat >= MIN_BEAT_SPAN
        timeline_in == IF snapped THEN timeline_in_beat ELSE current_timeline
        new_clip_duration == timeline_out_beat - timeline_in_beat
        source_out == IF snapped
                      THEN SnappedSourceOut(clip.duration_seconds, source_in,
                                            new_clip_duration)
                      ELSE source_out0
        clip_duration == IF snapped
                         THEN ClipDurationAfterSnap(source_in, source_out,
                                                    new_clip_duration)
                         ELSE clip_duration0
    IN  [clip_type |-> IF is_dialogue THEN "DIALOGUE" ELSE "BROLL",
         clip_index |-> clip_index,
         source_in_seconds |-> source_in,
         source_out_seconds |-> source_out,
         timeline_in_seconds |-> timeline_in,
         timeline_out_seconds |-> TimelineOut(timeline_in, clip_duration),
         speed_factor |-> 1,
         audio_level |-> IF is_dialogue THEN "FULL" ELSE "MUTED",
         chunk_index |-> chunk_index]

\* The loop over passing_clips = clips[first .. first + count - 1], in order.
RECURSIVE CutLoop(_, _, _, _, _, _, _, _, _)
CutLoop(k, count, first, clips, classifications, cut_point_results, current_timeline, beat_ctx, chunk_index) ==
    IF k >= count THEN <<>>
    ELSE LET ci == first + k
             d == MakeDecision(ci, clips[ci + 1], classifications[ci],
                               cut_point_results[ci], current_timeline,
                               beat_ctx.align_to_beats, beat_ctx.chunk_beats,
                               chunk_index)
         IN  <<d>> \o CutLoop(k + 1, count, first, clips, classifications,
                              cut_point_results, d.timeline_out_seconds,
                              beat_ctx, chunk_index)

\* max(d.timeline_out_seconds for d in decisions.decisions)
MaxTimelineOut(decisions) == SeqMax([i \in 1..Len(decisions) |-> decisions[i].timeline_out_seconds])

-----------------------------------------------------------------------------
(* Inputs.                                                                 *)

MusicDurations == {0, 120}
ChopTimes == {0, 60, 120}
BeatGrids == {<<>>, <<6, 120>>, <<0, 6, 120>>}
AvgClipDurations == {20}
BeatsPerCutValues == {0, 2}

NoStyle == [present |-> FALSE, beats_per_cut |-> 0, avg_clip_duration_seconds |-> 0,
            prefer_beat_alignment |-> FALSE]

Styles == {NoStyle} \cup
          [present : {TRUE}, beats_per_cut : BeatsPerCutValues,
           avg_clip_duration_seconds : AvgClipDurations,
           prefer_beat_alignment : BOOLEAN]

\* ClipForAssembly, the fields the planner reads: speech is <<>> when
\* speech_start_seconds / speech_end_seconds are None, else <<start, end>>.
Clips == {[duration_seconds |-> 8, speech |-> <<>>],
          [duration_seconds |-> 30, speech |-> <<4, 16>>]}

ClipLists == UNION {[1..n -> Clips] : n \in 0..MaxClips}

\* manifest.audio_assets[0], or no audio asset at all
Musics == {[has_audio |-> TRUE, duration_seconds |-> d, chop_points |-> cps,
            beat_grid |-> bg] :
              d \in MusicDurations,
              cps \in NonDecSeqsUpTo(ChopTimes, MaxChops),
              bg \in BeatGrids}

ValidMusic(m) ==
    /\ \A i \in 1..Len(m.chop_points) : m.chop_points[i] <= m.duration_seconds
    /\ \A i \in 1..Len(m.beat_grid) : m.beat_grid[i] <= m.duration_seconds

NoMusic == [has_audio |-> FALSE, duration_seconds |-> 0, chop_points |-> <<>>,
            beat_grid |-> <<>>]

Classifications == {"DIALOGUE", "BROLL"}
\* Answers of the cut-point judgment call: a window from the start of the clip
\* (0, 20), an inverted window (6, 4) and a window that starts at or beyond
\* the end of the clip (30, 18).
CutPoints == {[source_in_seconds |-> 0, source_out_seconds |-> 20],
              [source_in_seconds |-> 6, source_out_seconds |-> 4],
              [source_in_seconds |-> 30, source_out_seconds |-> 18]}

NoLocals == [chunk_index |-> 0 - 1, chunk_start |-> 0, chunk_end |-> 0,
             chunk_duration |-> 0, chunk_beats |-> <<>>, remaining_clips |-> 0,
             remaining_chunks |-> 0, target_clip_count |-> 0,
             target_avg_duration |-> <<0, 1>>, clip_count |-> 0, first_clip |-> 0,
             timeline_cursor |-> 0, cut_point_results |-> <<>>]

-----------------------------------------------------------------------------
(* State after construction: assemble() has been called with some input.   *)

\* the executor has not been given a blueprint
NoDucking == [pc |-> "idle", audio_info |-> <<>>, dialogue_sections |-> <<>>,
              merged_dialogue |-> <<>>, section |-> 0, current_pos |-> 0,
              segments |-> <<>>, frame_rate |-> 0, clips |-> <<>>]

\* documents.py lines 54-66: JobStage
JobStages ==
    {"CREATED", "QUEUED", "DOWNLOADING_FILES", "ANNOTATING_ASSETS", "PLANNING_EDITS",
     "EXECUTING_TIMELINE", "UPLOADING_RESULT", "COMPLETED", "FAILED", "CANCELLED"}

\* the three requests of routes/jobs.py that write the stage
RequestKinds == {"start", "resume", "cancel"}

\* positions of JobRunner.run: queued as a background task, after the load of
\* the job and its checkpoints, and inside each stage of the pipeline
RunnerPositions ==
    {"scheduled", "fresh", "downloading", "annotating", "has_manifest", "planning",
     "has_blueprint", "executing", "uploading"}

\* a job as create_job leaves it, with no request in progress and no runner
NoJob ==
    [stage |-> "CREATED", total_files |-> 0, manifest_id |-> FALSE,
     blueprint_id |-> FALSE, accepted |-> [k \in RequestKinds |-> 0],
     requests |-> 0, runners |-> [p \in RunnerPositions |-> 0],
     last_writer |-> "none"]

InitLocalsOfAssemble ==
    /\ pc = "start"
    /\ chunk_boundaries = <<>>
    /\ clip_classifications = <<>>
    /\ chunk_idx = 0
    /\ clip_cursor = 0
    /\ timeline_cursor = 0
    /\ chunk_decisions_list = <<>>
    /\ chunk_locals = NoLocals
    /\ blueprint = <<>>
    /\ api_semaphore = <<>>
    /\ tasks = <<>>
    /\ fanout = "none"
    /\ completed = <<>>

InitLocals ==
    /\ InitLocalsOfAssemble
    /\ job = NoJob

Init ==
    /\ \E m \in {x \in Musics : ValidMusic(x)} \cup {NoMusic}, cl \in ClipLists :
          manifest = [music |-> m, clips |-> cl]
    /\ style \in Styles
    /\ InitLocals
    /\ ducking = NoDucking

-----------------------------------------------------------------------------
(* assemble(), one action per step.                                        *)

NumClips == Len(manifest.clips)
ClipIndices == 0..(NumClips - 1)
TotalChunks == Len(chunk_boundaries) - 1

\* a gate made anew by every caller
GetSemaphoreFresh(sem) == <<MAX_CONCURRENT_API_CALLS, 0>>

\* _get_semaphore(): create the gate on first use
GetSemaphore(sem) == IF sem = <<>> THEN <<MAX_CONCURRENT_API_CALLS, 0>> ELSE sem

\* variant of NoAudioAssets that lets every manifest pass
NoAudioAssetsIgnored(m) == FALSE

\* line 107: "if not assembly_input.manifest.audio_assets"
NoAudioAssets(m) == ~m.music.has_audio

\* lines 104-128: the audio check and the chunk boundaries
BuildBoundaries ==
    /\ pc = "start"
    /\ fanout = "none"
    /\ IF NoAudioAssets(manifest)
       THEN /\ pc' = "raised"
            /\ UNCHANGED chunk_boundaries
       ELSE /\ pc' = "classify"
            /\ chunk_boundaries' = ChunkBoundaries(style, manifest.music.beat_grid,
                                                   manifest.music.chop_points,
                                                   manifest.music.duration_seconds)
    /\ UNCHANGED <<job, completed, ducking, manifest, style, clip_classifications, chunk_idx, clip_cursor,
                   timeline_cursor, chunk_decisions_list, chunk_locals, blueprint,
                   gateVars>>

\* lines 130-135: _classify_clips_parallel returns the whole dict
ClassifyClips ==
    /\ pc = "classify"
    /\ fanout = "none"
    /\ \E cls \in [ClipIndices -> Classifications] :
          clip_classifications' = cls
    /\ pc' = "loop"
    /\ api_semaphore' = IF NumClips > 0 THEN GetSemaphore(api_semaphore) ELSE api_semaphore
    /\ UNCHANGED <<job, completed, ducking, manifest, style, chunk_boundaries, chunk_idx, clip_cursor,
                   timeline_cursor, chunk_decisions_list, chunk_locals, blueprint,
                   tasks, fanout>>

\* a classify call fails terminally: gather raises out of assemble
ClassifyRaises ==
    /\ pc = "classify"
    /\ fanout = "none"
    /\ NumClips > 0
    /\ pc' = "raised"
    /\ api_semaphore' = GetSemaphore(api_semaphore)
    /\ UNCHANGED <<job, completed, ducking, manifest, style, chunk_boundaries, clip_classifications, chunk_idx,
                   clip_cursor, timeline_cursor, chunk_decisions_list, chunk_locals,
                   blueprint, tasks, fanout>>

\* variant of IterationLocals that takes max(1, int(chunk_duration / target))
\* clips without spreading the remaining clips over the remaining chunks
IterationLocalsGreedy ==
    LET chunk_start == chunk_boundaries[chunk_idx + 1]
        chunk_end == chunk_boundaries[chunk_idx + 2]
        chunk_duration == chunk_end - chunk_start
        remaining_clips == NumClips - clip_cursor
        remaining_chunks == TotalChunks - chunk_idx
        target_clip_count == Max(1, chunk_duration \div TargetCutDuration(style))
    IN  [chunk_index |-> chunk_idx,
         chunk_start |-> chunk_start,
         chunk_end |-> chunk_end,
         chunk_duration |-> chunk_duration,
         chunk_beats |-> ChunkBeats(manifest.music.beat_grid, chunk_start, chunk_end),
         remaining_clips |-> remaining_clips,
         remaining_chunks |-> remaining_chunks,
         target_clip_count |-> target_clip_count,
         target_avg_duration |-> TargetAvgDuration(chunk_duration, target_clip_count),
         clip_count |-> Min(target_clip_count, remaining_clips),
         first_clip |-> clip_cursor,
         timeline_cursor |-> timeline_cursor,
         cut_point_results |-> <<>>]

\* lines 159-206: the locals of the iteration for chunk_idx, up to _process_chunk
IterationLocals ==
    LET chunk_start == chunk_boundaries[chunk_idx + 1]
        chunk_end == chunk_boundaries[chunk_idx + 2]
        chunk_duration == chunk_end - chunk_start
        remaining_clips == NumClips - clip_cursor
        remaining_chunks == TotalChunks - chunk_idx
        target_clip_count == TargetClipCount(chunk_duration, style, remaining_clips,
                                             remaining_chunks)
    IN  [chunk_index |-> chunk_idx,
         chunk_start |-> chunk_start,
         chunk_end |-> chunk_end,
         chunk_duration |-> chunk_duration,
         chunk_beats |-> ChunkBeats(manifest.music.beat_grid, chunk_start, chunk_end),
         remaining_clips |-> remaining_clips,
         remaining_chunks |-> remaining_chunks,
         target_clip_count |-> target_clip_count,
         target_avg_duration |-> TargetAvgDuration(chunk_duration, target_clip_count),
         clip_count |-> Min(target_clip_count, remaining_clips),
         first_clip |-> clip_cursor,
         timeline_cursor |-> timeline_cursor,
         cut_point_results |-> <<>>]

\* variant of AdvanceClipCursor that is one short, so the next slice starts on
\* the last clip of this one
AdvanceClipCursorOneShort(cursor, clip_count) == cursor + clip_count - 1

\* line 195: clip_cursor += clip_count
AdvanceClipCursor(cursor, clip_count) == cursor + clip_count

\* lines 173-175: no clips remain, the chunk is skipped
SkipChunk ==
    /\ pc = "loop"
    /\ fanout = "none"
    /\ chunk_idx < TotalChunks
    /\ NumClips - clip_cursor <= 0
    /\ chunk_idx' = chunk_idx + 1
    /\ UNCHANGED <<job, completed, ducking, manifest, style, pc, chunk_boundaries, clip_classifications,
                   clip_cursor, timeline_cursor, chunk_decisions_list, chunk_locals,
                   blueprint, gateVars>>

\* _process_chunk / _create_cut_decisions on the gathered cut points
ChunkDecisions(loc, cut_point_results) ==
    [chunk_index |-> loc.chunk_index,
     chunk_start_seconds |-> loc.chunk_start,
     chunk_end_seconds |-> loc.chunk_end,
     decisions |-> CutLoop(0, loc.clip_count, loc.first_clip, manifest.clips,
                           clip_classifications, cut_point_results,
                           loc.timeline_cursor,
                           [align_to_beats |-> AlignToBeats(style),
                            chunk_beats |-> loc.chunk_beats],
                           loc.chunk_index)]

\* lines 216-222: append the chunk's decisions and move the cursor
NewTimelineCursor(cursor, decisions) ==
    IF decisions # <<>> THEN MaxTimelineOut(decisions) ELSE cursor

\* lines 158-222: one iteration that processes a chunk, every cut-point call answered
ProcessChunk ==
    /\ pc = "loop"
    /\ fanout = "none"
    /\ chunk_idx < TotalChunks
    /\ NumClips - clip_cursor > 0
    /\ LET loc == IterationLocals
           slice == loc.first_clip..(loc.first_clip + loc.clip_count - 1)
       IN  \E cuts \in [slice -> CutPoints] :
              LET cd == ChunkDecisions(loc, cuts)
              IN  /\ chunk_locals' = [loc EXCEPT !.cut_point_results = cuts]
                  /\ clip_cursor' = AdvanceClipCursor(clip_cursor, loc.clip_count)
                  /\ chunk_decisions_list' = Append(chunk_decisions_list, cd)
                  /\ timeline_cursor' = NewTimelineCursor(timeline_cursor, cd.decisions)
    /\ chunk_idx' = chunk_idx + 1
    /\ api_semaphore' = GetSemaphore(api_semaphore)
    /\ UNCHANGED <<job, completed, ducking, manifest, style, pc, chunk_boundaries, clip_classifications,
                   blueprint, tasks, fanout>>

\* a cut-point call of the chunk fails terminally: the exception leaves assemble
ChunkRaises ==
    /\ pc = "loop"
    /\ fanout = "none"
    /\ chunk_idx < TotalChunks
    /\ NumClips - clip_cursor > 0
    /\ chunk_locals' = IterationLocals
    /\ clip_cursor' = AdvanceClipCursor(clip_cursor, IterationLocals.clip_count)
    /\ pc' = "raised"
    /\ api_semaphore' = GetSemaphore(api_semaphore)
    /\ UNCHANGED <<job, completed, ducking, manifest, style, chunk_boundaries, clip_classifications, chunk_idx,
                   timeline_cursor, chunk_decisions_list, blueprint, tasks, fanout>>

\* lines 224-245: the audio tracks and the blueprint
AudioTracks(cursor) ==
    <<[duration_seconds |-> manifest.music.duration_seconds,
       source_in_seconds |-> 0,
       source_out_seconds |-> Min(manifest.music.duration_seconds, cursor),
       timeline_in_seconds |-> 0]>>

ReturnBlueprint ==
    /\ pc = "loop"
    /\ fanout = "none"
    /\ chunk_idx = TotalChunks
    /\ blueprint' = <<[total_duration_seconds |-> timeline_cursor,
                       chunk_decisions |-> chunk_decisions_list,
                       audio_tracks |-> AudioTracks(timeline_cursor)]>>
    /\ pc' = "done"
    /\ UNCHANGED <<job, completed, ducking, manifest, style, chunk_boundaries, clip_classifications, chunk_idx,
                   clip_cursor, timeline_cursor, chunk_decisions_list, chunk_locals,
                   gateVars>>

Next ==
    \/ BuildBoundaries
    \/ ClassifyClips
    \/ ClassifyRaises
    \/ SkipChunk
    \/ ProcessChunk
    \/ ChunkRaises
    \/ ReturnBlueprint

Spec == Init /\ [][Next]_vars

-----------------------------------------------------------------------------
(* The same run with every judgment call as its own coroutine: _with_retry *)
(* (lines 24-52) under asyncio.gather, for the classification fan-out      *)
(* (lines 584-602) and each chunk's cut-point fan-out (lines 479-496).     *)
(* A task is new, waiting (queued at "async with sem"), inflight (inside   *)
(* "async with sem", holding a slot), backoff (in asyncio.sleep), done or  *)
(* failed; slept is the backoff slept so far, in seconds, error where the  *)
(* exception a failed task raised came from ("worker": coro_func, "gate":  *)
(* "async with sem").  coro_func is invoked once each time a task becomes  *)
(* inflight.  The gate is <<counter, loop>>: loop is 0 until a caller has  *)
(* queued on it.                                                           *)

NewTask == [st |-> "new", attempt |-> 0, slept |-> 0, error |-> "none", result |-> <<>>]

InFlight == Cardinality({i \in DOMAIN tasks : tasks[i].st = "inflight"})

Waiting(ts) == {i \in DOMAIN ts : ts[i].st = "waiting"}

\* asyncio.Semaphore.locked(): the counter is zero or somebody is queued
Locked(sem, ts) == sem[1] = 0 \/ Waiting(ts) # {}

\* every asyncio.run (lines 350 and 582) runs its fan-out on a loop of its own
CurrentLoop == IF fanout = "classify" THEN 1 ELSE chunk_idx + 2

\* lines 35-49: the except branch, by whether the message reads as transient
AfterError(t, transient) ==
    IF transient /\ t.attempt < MAX_RETRIES - 1 THEN "backoff" ELSE "failed"

\* lines 44-49: "raise" re-raises the exception that was caught
ErrorRaised(t, transient, origin) ==
    IF AfterError(t, transient) = "failed" THEN origin ELSE "none"

\* line 33, "async with sem" on entry: the slot is taken at once when the gate
\* is not locked; otherwise the caller queues on the loop the gate is bound to
\* (bound on the first queueing), and queueing from another loop raises
\* RuntimeError inside the try (its message holds the gate's address, so either
\* branch of the message test can be taken)
EnterGate(i, ts, sem) ==
    IF ~Locked(sem, ts)
    THEN /\ tasks' = [ts EXCEPT ![i].st = "inflight"]
         /\ api_semaphore' = <<sem[1] - 1, sem[2]>>
    ELSE IF sem[2] \in {0, CurrentLoop}
    THEN /\ tasks' = [ts EXCEPT ![i].st = "waiting"]
         /\ api_semaphore' = <<sem[1], CurrentLoop>>
    ELSE /\ api_semaphore' = sem
         /\ \E transient \in BOOLEAN :
               tasks' = [ts EXCEPT ![i].st = AfterError(ts[i], transient),
                                   ![i].error = ErrorRaised(ts[i], transient, "gate")]

\* line 33, "async with sem" on exit: release() hands the slot to a queued
\* caller when there is one, and returns it to the counter otherwise
LeaveGate(i, ts) ==
    IF Waiting(ts) # {}
    THEN /\ \E j \in Waiting(ts) : tasks' = [ts EXCEPT ![j].st = "inflight"]
         /\ UNCHANGED api_semaphore
    ELSE /\ tasks' = ts
         /\ api_semaphore' = <<api_semaphore[1] + 1, api_semaphore[2]>>

\* a backoff that doubles the attempt number instead of raising 2 to it
WaitTimeDoubled(attempt) == 2 * attempt

\* wait_time = 2 ** attempt
RECURSIVE WaitTime(_)
WaitTime(attempt) == IF attempt = 0 THEN 1 ELSE 2 * WaitTime(attempt - 1)


\* lines 596-601: gather(classify_one(clip) for clip in clips)
\* variant of StartClassify that leaves the last clip of the manifest unclassified
StartClassifyAllButLast ==
    /\ pc = "classify"
    /\ fanout = "none"
    /\ fanout' = "classify"
    /\ tasks' = [i \in ClipIndices \ {NumClips - 1} |-> NewTask]
    /\ completed' = <<>>
    /\ UNCHANGED <<job, ducking, planVars, api_semaphore>>

StartClassify ==
    /\ pc = "classify"
    /\ fanout = "none"
    /\ fanout' = "classify"
    /\ tasks' = [i \in ClipIndices |-> NewTask]
    /\ completed' = <<>>
    /\ UNCHANGED <<job, ducking, planVars, api_semaphore>>

\* lines 158-206 and 480-493: the iteration up to gather(cut_one(clip) ...)
StartChunk ==
    /\ pc = "loop"
    /\ fanout = "none"
    /\ chunk_idx < TotalChunks
    /\ NumClips - clip_cursor > 0
    /\ chunk_locals' = IterationLocals
    /\ clip_cursor' = AdvanceClipCursor(clip_cursor, IterationLocals.clip_count)
    /\ fanout' = "cut"
    /\ tasks' = [i \in IterationLocals.first_clip..
                       (IterationLocals.first_clip + IterationLocals.clip_count - 1)
                   |-> NewTask]
    /\ completed' = <<>>
    /\ UNCHANGED <<job, ducking, manifest, style, pc, chunk_boundaries, clip_classifications,
                   chunk_idx, timeline_cursor, chunk_decisions_list, blueprint,
                   api_semaphore>>

\* lines 30-33: sem = _get_semaphore(), then the first attempt enters the gate
TaskStarts(i) ==
    /\ tasks[i].st = "new"
    /\ EnterGate(i, tasks, GetSemaphore(api_semaphore))
    /\ UNCHANGED <<job, completed, ducking, planVars, fanout>>

\* the answers the cut-point agent gives in this specification
GateCutPoints == {c \in CutPoints : c.source_in_seconds = 0}

\* line 34: the call returns and the task leaves the gate
CallReturns(i) ==
    /\ tasks[i].st = "inflight"
    /\ \E r \in IF fanout = "classify" THEN Classifications ELSE GateCutPoints :
          LeaveGate(i, [tasks EXCEPT ![i].st = "done", ![i].result = <<r>>])
    /\ UNCHANGED <<job, completed, ducking, planVars, fanout>>

\* variant of CallFailsTransient that sleeps inside "async with"
CallFailsTransientHoldingGate(i) ==
    /\ tasks[i].st = "inflight"
    /\ tasks' = [tasks EXCEPT ![i].st = AfterError(tasks[i], TRUE),
                              ![i].error = ErrorRaised(tasks[i], TRUE, "worker")]
    /\ UNCHANGED <<job, api_semaphore, completed, ducking, planVars, fanout>>

\* lines 35-46: a rate-limit or connection error; the gate is left on the way
\* out of "async with", then the task sleeps or, on the last attempt, raises
CallFailsTransient(i) ==
    /\ tasks[i].st = "inflight"
    /\ LeaveGate(i, [tasks EXCEPT ![i].st = AfterError(tasks[i], TRUE),
                                  ![i].error = ErrorRaised(tasks[i], TRUE, "worker")])
    /\ UNCHANGED <<job, completed, ducking, planVars, fanout>>

\* lines 47-49: any other error is raised at once
CallFailsFatal(i) ==
    /\ tasks[i].st = "inflight"
    /\ LeaveGate(i, [tasks EXCEPT ![i].st = AfterError(tasks[i], FALSE),
                                  ![i].error = ErrorRaised(tasks[i], FALSE, "worker")])
    /\ UNCHANGED <<job, completed, ducking, planVars, fanout>>

\* line 43: asyncio.sleep(2 ** attempt) ends and the next attempt enters the gate
BackoffEnds(i) ==
    /\ tasks[i].st = "backoff"
    /\ EnterGate(i, [tasks EXCEPT ![i].attempt = tasks[i].attempt + 1,
                                  ![i].slept = tasks[i].slept + WaitTime(tasks[i].attempt)],
                 api_semaphore)
    /\ UNCHANGED <<job, completed, ducking, planVars, fanout>>

\* variant of GatherResults that hands the k-th result to arrive to the k-th clip
GatherResultsByCompletion(ts, order) ==
    LET first == CHOOSE i \in DOMAIN ts : \A j \in DOMAIN ts : i <= j
    IN  [i \in DOMAIN ts |-> ts[order[i - first + 1]].result[1]]

\* lines 494-495 and 601-602: every coroutine returns (clip.clip_index, result)
\* and dict() keys the results by that index, whatever the order of arrival
GatherResults(ts, order) == [i \in DOMAIN ts |-> ts[i].result[1]]

AllDone == \A i \in DOMAIN tasks : tasks[i].st = "done"

\* lines 601-602 and 135: gather returns, dict(results_list)
FinishClassify ==
    /\ fanout = "classify"
    /\ AllDone
    /\ clip_classifications' = GatherResults(tasks, completed)
    /\ pc' = "loop"
    /\ fanout' = "none"
    /\ tasks' = <<>>
    /\ UNCHANGED <<job, completed, ducking, manifest, style, chunk_boundaries, chunk_idx, clip_cursor,
                   timeline_cursor, chunk_decisions_list, chunk_locals, blueprint,
                   api_semaphore>>

\* lines 493-496, 368-440 and 216-222: gather returns, the sequential pass runs
FinishChunk ==
    /\ fanout = "cut"
    /\ AllDone
    /\ LET cuts == GatherResults(tasks, completed)
           cd == ChunkDecisions(chunk_locals, cuts)
       IN  /\ chunk_locals' = [chunk_locals EXCEPT !.cut_point_results = cuts]
           /\ chunk_decisions_list' = Append(chunk_decisions_list, cd)
           /\ timeline_cursor' = NewTimelineCursor(timeline_cursor, cd.decisions)
    /\ chunk_idx' = chunk_idx + 1
    /\ fanout' = "none"
    /\ tasks' = <<>>
    /\ UNCHANGED <<job, completed, ducking, manifest, style, pc, chunk_boundaries, clip_classifications,
                   clip_cursor, blueprint, api_semaphore>>

\* variant of GatherRaises that still records a ChunkDecisions for the chunk
\* whose fan-out raised
GatherRaisesRecordingChunk ==
    /\ fanout # "none"
    /\ \E i \in DOMAIN tasks : tasks[i].st = "failed"
    /\ api_semaphore' = <<api_semaphore[1] + InFlight, api_semaphore[2]>>
    /\ tasks' = [i \in DOMAIN tasks |->
                     IF tasks[i].st \in {"done", "failed"} THEN tasks[i]
                     ELSE [tasks[i] EXCEPT !.st = "cancelled"]]
    /\ fanout' = "none"
    /\ pc' = "raised"
    /\ chunk_decisions_list' =
           IF fanout = "cut"
           THEN Append(chunk_decisions_list,
                       ChunkDecisions([chunk_locals EXCEPT !.clip_count = 0], <<>>))
           ELSE chunk_decisions_list
    /\ UNCHANGED <<job, completed, ducking, manifest, style, chunk_boundaries, clip_classifications, chunk_idx,
                   clip_cursor, timeline_cursor, chunk_locals, blueprint>>
\* a task raised: gather re-raises, asyncio.run cancels the tasks still running
\* (a cancelled holder leaves "async with" and releases the gate), and the
\* exception leaves assemble
GatherRaises ==
    /\ fanout # "none"
    /\ \E i \in DOMAIN tasks : tasks[i].st = "failed"
    /\ api_semaphore' = <<api_semaphore[1] + InFlight, api_semaphore[2]>>
    /\ tasks' = [i \in DOMAIN tasks |->
                     IF tasks[i].st \in {"done", "failed"} THEN tasks[i]
                     ELSE [tasks[i] EXCEPT !.st = "cancelled"]]
    /\ fanout' = "none"
    /\ pc' = "raised"
    /\ UNCHANGED <<job, completed, ducking, manifest, style, chunk_boundaries, clip_classifications, chunk_idx,
                   clip_cursor, timeline_cursor, chunk_decisions_list, chunk_locals,
                   blueprint>>

GateClip == [duration_seconds |-> 30, speech |-> <<4, 16>>]
GateStyle == [present |-> TRUE, beats_per_cut |-> 0, avg_clip_duration_seconds |-> 20,
              prefer_beat_alignment |-> TRUE]
GateMusics == {[has_audio |-> TRUE, duration_seconds |-> 120, chop_points |-> cps,
                beat_grid |-> <<6, 120>>] : cps \in {<<>>, <<60>>}}
              \cup {[has_audio |-> TRUE, duration_seconds |-> 40, chop_points |-> <<>>,
                     beat_grid |-> <<6, 40>>]}
              \cup {NoMusic}

InitGate ==
    /\ \E m \in GateMusics, n \in 0..MaxGateClips :
          manifest = [music |-> m, clips |-> [i \in 1..n |-> GateClip]]
    /\ style = GateStyle
    /\ InitLocals
    /\ ducking = NoDucking

NextGate ==
    \/ BuildBoundaries
    \/ StartClassify
    \/ FinishClassify
    \/ SkipChunk
    \/ StartChunk
    \/ FinishChunk
    \/ GatherRaises
    \/ ReturnBlueprint
    \/ \E i \in DOMAIN tasks :
          \/ TaskStarts(i)
          \/ CallReturns(i)
          \/ CallFailsTransient(i)
          \/ CallFailsFatal(i)
          \/ BackoffEnds(i)

SpecGate == InitGate /\ [][NextGate]_vars

-----------------------------------------------------------------------------
(* Views of the state used by the properties.                              *)

\* every decision recorded so far, chunk after chunk
RECURSIVE Flatten(_)
Flatten(chunks) ==
    IF chunks = <<>> THEN <<>> ELSE Head(chunks).decisions \o Flatten(Tail(chunks))

Decisions == Flatten(chunk_decisions_list)

\* stable sort by timeline_in_seconds (insertion sort, equal keys keep their order)
RECURSIVE InsertByTimelineIn(_, _)
InsertByTimelineIn(sorted, d) ==
    IF sorted = <<>> THEN <<d>>
    ELSE IF sorted[Len(sorted)].timeline_in_seconds <= d.timeline_in_seconds
         THEN Append(sorted, d)
         ELSE Append(InsertByTimelineIn(SubSeq(sorted, 1, Len(sorted) - 1), d),
                     sorted[Len(sorted)])

RECURSIVE SortByTimelineIn(_)
SortByTimelineIn(ds) ==
    IF ds = <<>> THEN <<>>
    ELSE InsertByTimelineIn(SortByTimelineIn(SubSeq(ds, 1, Len(ds) - 1)), ds[Len(ds)])

ClipOf(d) == manifest.clips[d.clip_index + 1]

\* the most recent iteration processed a chunk, and its decisions are the last recorded
LastChunkProcessed ==
    /\ chunk_decisions_list # <<>>
    /\ chunk_locals.chunk_index =
           chunk_decisions_list[Len(chunk_decisions_list)].chunk_index

LastDecisions == chunk_decisions_list[Len(chunk_decisions_list)].decisions

\* the cursor the k-th decision of the last chunk was placed at
RunningCursor(k) ==
    IF k = 1 THEN chunk_locals.timeline_cursor
    ELSE LastDecisions[k - 1].timeline_out_seconds

-----------------------------------------------------------------------------
(* C1: in every returned blueprint the decisions, flattened and sorted by  *)
(* timeline_in_seconds, start at 0.0 and each decision's timeline_out is   *)
(* the next decision's timeline_in.                                        *)
PartitionInvariant ==
    pc = "done" =>
        LET ds == SortByTimelineIn(Flatten(blueprint[1].chunk_decisions))
        IN  /\ ds # <<>> => ds[1].timeline_in_seconds = 0
            /\ \A i \in 1..(Len(ds) - 1) :
                  ds[i].timeline_out_seconds = ds[i + 1].timeline_in_seconds

(* C2: every CutDecision has source_out > source_in and timeline_out >     *)
(* timeline_in, whatever cut points the judgment call returned.            *)
PositiveDurations ==
    \A i \in 1..Len(Decisions) :
        /\ Decisions[i].source_out_seconds > Decisions[i].source_in_seconds
        /\ Decisions[i].timeline_out_seconds > Decisions[i].timeline_in_seconds

(* C3: for every CutDecision, source_out - source_in equals                *)
(* (timeline_out - timeline_in) * speed_factor, also after beat alignment  *)
(* and after source_out was clamped to the clip's duration.                *)
DurationConsistency ==
    \A i \in 1..Len(Decisions) :
        Decisions[i].source_out_seconds - Decisions[i].source_in_seconds =
            (Decisions[i].timeline_out_seconds - Decisions[i].timeline_in_seconds)
                * Decisions[i].speed_factor

\* a B-roll decision of the last chunk was moved onto a beat and its source_out
\* was cut back to the end of the clip
SnappedAndClampedDecision ==
    /\ LastChunkProcessed
    /\ \E k \in 1..Len(LastDecisions) :
          LET d == LastDecisions[k]
          IN  /\ d.clip_type = "BROLL"
              /\ d.timeline_in_seconds # RunningCursor(k)
              /\ d.source_out_seconds = ClipOf(d).duration_seconds
              /\ d.source_out_seconds > d.source_in_seconds
              /\ \A b \in 1..Len(chunk_locals.chunk_beats) :
                    chunk_locals.chunk_beats[b] # d.timeline_out_seconds

(* C4: the clip counts allocated to the chunks sum to at most the number   *)
(* of clips, the slices handed to successive chunks are consecutive index  *)
(* ranges in increasing order, and no clip index is in two CutDecisions.   *)
BudgetConservation ==
    /\ clip_cursor <= NumClips
    /\ chunk_locals.first_clip + chunk_locals.clip_count <= NumClips
    /\ \A k \in 1..Len(Decisions) : Decisions[k].clip_index = k - 1
    /\ pc # "raised" => Len(Decisions) = clip_cursor
    /\ LastChunkProcessed =>
          /\ Len(LastDecisions) = chunk_locals.clip_count
          /\ LastDecisions # <<>> =>
                LastDecisions[1].clip_index = chunk_locals.first_clip

\* two chunks in a row received clips
TwoChunksWithClips ==
    /\ pc = "done"
    /\ Len(chunk_decisions_list) >= 2
    /\ \A c \in 1..Len(chunk_decisions_list) : chunk_decisions_list[c].decisions # <<>>

(* C5: the boundary list has length segment_count + 1, starts with 0.0,    *)
(* ends with the total duration and is strictly increasing (stated here    *)
(* for music of positive duration).                                        *)
BoundariesStrictlyIncreasing ==
    (pc \in {"classify", "loop", "done"} /\ manifest.music.duration_seconds > 0) =>
        /\ Len(chunk_boundaries) = TotalChunks + 1
        /\ chunk_boundaries[1] = 0
        /\ chunk_boundaries[Len(chunk_boundaries)] = manifest.music.duration_seconds
        /\ \A i \in 1..(Len(chunk_boundaries) - 1) :
              chunk_boundaries[i] < chunk_boundaries[i + 1]

(* C6: in beat mode (beats_per_cut set, beat grid non-empty) the           *)
(* boundaries are 0.0, the beats at the indices i > 0 with                 *)
(* i % beats_per_cut = 0, then the duration; otherwise 0.0, every chop     *)
(* point, then the duration (length len(chop_points) + 2).                 *)
BoundaryContentsByMode ==
    pc \in {"classify", "loop", "done"} =>
        LET music == manifest.music
            bpc == style.beats_per_cut
        IN  IF style.present /\ bpc > 0 /\ Len(music.beat_grid) > 0
            THEN LET selected == {i \in 1..(Len(music.beat_grid) - 1) : i % bpc = 0}
                 IN  /\ Len(chunk_boundaries) = Cardinality(selected) + 2
                     /\ chunk_boundaries[1] = 0
                     /\ \A k \in 1..Cardinality(selected) :
                           /\ k * bpc \in selected
                           /\ chunk_boundaries[k + 1] = music.beat_grid[k * bpc + 1]
                     /\ chunk_boundaries[Len(chunk_boundaries)] = music.duration_seconds
            ELSE /\ Len(chunk_boundaries) = Len(music.chop_points) + 2
                 /\ chunk_boundaries[1] = 0
                 /\ \A k \in 1..Len(music.chop_points) :
                       chunk_boundaries[k + 1] = music.chop_points[k]
                 /\ chunk_boundaries[Len(chunk_boundaries)] = music.duration_seconds
                 /\ music.chop_points = <<>> =>
                       chunk_boundaries = <<0, music.duration_seconds>>

\* beat mode cut the music at a beat
BeatModeWithSelectedBeat ==
    /\ pc = "classify"
    /\ style.present /\ style.beats_per_cut > 0
    /\ Len(manifest.music.beat_grid) > style.beats_per_cut
    /\ Len(chunk_boundaries) >= 3

(* C7 as stated: a chunk with remaining_clips > 0 gets                     *)
(* max(1, floor(duration / target)) clips capped by                        *)
(* floor(remaining_clips / remaining_segments).                            *)
SegmentBudgetFloorCap ==
    LastChunkProcessed =>
        LET target == IF style.present THEN style.avg_clip_duration_seconds
                                       ELSE DEFAULT_TARGET_CUT_DURATION
        IN  Len(LastDecisions) =
                Min(Max(1, chunk_locals.chunk_duration \div target),
                    chunk_locals.remaining_clips \div chunk_locals.remaining_chunks)

(* C7 as amended: the cap is max(1, floor(remaining_clips /                *)
(* remaining_segments)), so a chunk with clips remaining always gets at    *)
(* least one; the target average duration is segment_duration / clip_count.*)
SegmentBudget ==
    LastChunkProcessed =>
        LET target == IF style.present THEN style.avg_clip_duration_seconds
                                       ELSE DEFAULT_TARGET_CUT_DURATION
            count == Min(Max(1, chunk_locals.chunk_duration \div target),
                         Max(1, chunk_locals.remaining_clips
                                  \div chunk_locals.remaining_chunks))
        IN  /\ chunk_locals.remaining_clips > 0
            /\ Len(LastDecisions) = count
            /\ chunk_locals.clip_count = count
            /\ chunk_locals.target_avg_duration = <<chunk_locals.chunk_duration, count>>

\* fewer clips remained than chunks, and the chunk still received one clip
FewerClipsThanChunks ==
    /\ LastChunkProcessed
    /\ chunk_locals.remaining_clips < chunk_locals.remaining_chunks
    /\ Len(LastDecisions) = 1

(* C8: every DIALOGUE decision of a clip with speech_start / speech_end    *)
(* has source_in <= speech_start and source_out >= speech_end.             *)
DialogueIntegrity ==
    \A i \in 1..Len(Decisions) :
        (Decisions[i].clip_type = "DIALOGUE" /\ ClipOf(Decisions[i]).speech # <<>>) =>
            /\ Decisions[i].source_in_seconds <= ClipOf(Decisions[i]).speech[1]
            /\ Decisions[i].source_out_seconds >= ClipOf(Decisions[i]).speech[2]

(* C9 as stated: a DIALOGUE decision starts at the running cursor and its  *)
(* source_in / source_out are the judgment call's cut points clamped to    *)
(* [0, clip duration].                                                     *)
DialogueCutPointsClamped ==
    LastChunkProcessed =>
        \A k \in 1..Len(LastDecisions) :
            LET d == LastDecisions[k]
                cp == chunk_locals.cut_point_results[d.clip_index]
                dur == ClipOf(d).duration_seconds
            IN  d.clip_type = "DIALOGUE" =>
                    /\ d.timeline_in_seconds = RunningCursor(k)
                    /\ d.source_in_seconds = Max(0, Min(dur, cp.source_in_seconds))
                    /\ d.source_out_seconds = Max(0, Min(dur, cp.source_out_seconds))

(* C9 as amended: a DIALOGUE decision starts at the running cursor, its    *)
(* source_in is the judgment call's source_in raised to 0, its source_out  *)
(* is the call's source_out lowered to the clip duration, or               *)
(* min(duration, source_in + 0.5) when that is not beyond source_in, and   *)
(* it ends at the cursor plus source_out - source_in: beats never move it. *)
DialogueNeverSnapped ==
    LastChunkProcessed =>
        \A k \in 1..Len(LastDecisions) :
            LET d == LastDecisions[k]
                cp == chunk_locals.cut_point_results[d.clip_index]
                dur == ClipOf(d).duration_seconds
                lo == IF cp.source_in_seconds < 0 THEN 0 ELSE cp.source_in_seconds
                hi == IF cp.source_out_seconds > dur THEN dur ELSE cp.source_out_seconds
                fallback == IF lo + FALLBACK_DURATION > dur THEN dur
                            ELSE lo + FALLBACK_DURATION
            IN  d.clip_type = "DIALOGUE" =>
                    /\ d.timeline_in_seconds = RunningCursor(k)
                    /\ d.source_in_seconds = lo
                    /\ d.source_out_seconds = IF hi <= lo THEN fallback ELSE hi
                    /\ d.timeline_out_seconds =
                           RunningCursor(k) + (d.source_out_seconds - lo)

\* a DIALOGUE decision placed off the beat although alignment was on and the
\* chunk had beats that would have moved a B-roll clip
DialogueOffBeat ==
    /\ LastChunkProcessed
    /\ AlignToBeats(style)
    /\ \E k \in 1..Len(LastDecisions) :
          LET d == LastDecisions[k]
              in_beat == _snap_to_nearest_beat(RunningCursor(k), chunk_locals.chunk_beats)
          IN  /\ d.clip_type = "DIALOGUE"
              /\ chunk_locals.chunk_beats # <<>>
              /\ in_beat # RunningCursor(k)
              /\ _snap_to_next_beat(in_beat + (d.source_out_seconds - d.source_in_seconds),
                                    chunk_locals.chunk_beats) - in_beat
                     >= MIN_BEAT_SPAN

WorkerAnswers == IF chunk_locals = NoLocals THEN Classifications ELSE GateCutPoints

\* 2^0 + ... + 2^(k-1)
RECURSIVE BackoffSum(_)
BackoffSum(k) == IF k = 0 THEN 0 ELSE BackoffSum(k - 1) + 2 ^ (k - 1)

(* C11: a call that failed transiently on attempts 0..k-1 and succeeded on *)
(* attempt k < max_retries returns that result, and the backoff slept      *)
(* before it is exactly 2^0 + ... + 2^(k-1) seconds.                       *)
RetryWithBackoff ==
    \A i \in DOMAIN tasks :
        tasks[i].st = "done" =>
            /\ tasks[i].attempt < MAX_RETRIES
            /\ tasks[i].result # <<>>
            /\ tasks[i].result[1] \in WorkerAnswers
            /\ tasks[i].slept = BackoffSum(tasks[i].attempt)

\* a classification call failed twice and succeeded on the third attempt,
\* after 1 s + 2 s of backoff
ThirdAttemptSucceeds ==
    /\ fanout = "classify"
    /\ \E i \in DOMAIN tasks :
          /\ tasks[i].st = "done"
          /\ tasks[i].attempt = 2
          /\ tasks[i].slept = 3

(* C12: a non-transient error, or a transient error on the last allowed    *)
(* attempt, is re-raised at once without sleeping and without invoking the *)
(* worker again; the worker is invoked at most max_retries times, and the  *)
(* call ends by returning the worker's result or raising the worker's own  *)
(* error.                                                                  *)
FailFast ==
    \A i \in DOMAIN tasks :
        /\ tasks[i].attempt < MAX_RETRIES
        /\ tasks[i].slept = BackoffSum(tasks[i].attempt)
        /\ tasks[i].st = "done" => tasks[i].result # <<>> /\ tasks[i].error = "none"
        /\ tasks[i].st = "failed" => tasks[i].result = <<>> /\ tasks[i].error = "worker"

-----------------------------------------------------------------------------
(* The executor's music track: _create_audio_track_with_ducking, in whole  *)
(* seconds, volumes in percent.                                            *)

FULL_VOLUME == 100
DUCK_VOLUME == 30

MaxWindows == 2
DuckTimes == 0..4
TrackLengths == {0, 3}
FrameRates == {60}

AudioInfos ==
    {[timeline_in_seconds |-> t, source_in_seconds |-> a, source_out_seconds |-> a + n] :
        t \in {0, 1}, a \in {0, 1}, n \in TrackLengths}
Windows == {w \in DuckTimes \X DuckTimes : w[1] <= w[2]}
WindowLists == UNION {[1..n -> Windows] : n \in 0..MaxWindows}
ExampleTrack == [timeline_in_seconds |-> 0, source_in_seconds |-> 0, source_out_seconds |-> 12]
ExampleWindows == <<<<3, 5>>>>

\* sorted(sections, key=start) is stable: x goes behind every section that
\* starts no later
RECURSIVE InsertByStart(_, _)
InsertByStart(x, sorted) ==
    IF sorted = <<>> THEN <<x>>
    ELSE IF Head(sorted)[1] <= x[1] THEN <<Head(sorted)>> \o InsertByStart(x, Tail(sorted))
    ELSE <<x>> \o sorted

\* variant of SortedByStart that leaves the sections in the order given
SortedByStartAsGiven(sections) == sections

RECURSIVE SortedByStart(_)
SortedByStart(sections) ==
    IF sections = <<>> THEN <<>>
    ELSE InsertByStart(sections[Len(sections)],
                       SortedByStart(SubSeq(sections, 1, Len(sections) - 1)))

RECURSIVE MergeFromLastEnd(_, _, _)
MergeFromLastEnd(rest, current_start, current_end) ==
    IF rest = <<>> THEN <<<<current_start, current_end>>>>
    ELSE IF Head(rest)[1] <= current_end
         THEN MergeFromLastEnd(Tail(rest), current_start, Head(rest)[2])
         ELSE <<<<current_start, current_end>>>>
              \o MergeFromLastEnd(Tail(rest), Head(rest)[1], Head(rest)[2])
\* the loop of _merge_overlapping_sections over sorted_sections[1:]
RECURSIVE MergeFrom(_, _, _)
MergeFrom(rest, current_start, current_end) ==
    IF rest = <<>> THEN <<<<current_start, current_end>>>>
    ELSE IF Head(rest)[1] <= current_end
         THEN MergeFrom(Tail(rest), current_start, Max(current_end, Head(rest)[2]))
         ELSE <<<<current_start, current_end>>>>
              \o MergeFrom(Tail(rest), Head(rest)[1], Head(rest)[2])

MergeOverlappingSectionsSortOnly(sections) == SortedByStart(sections)
MergeOverlappingSections(sections) ==
    IF sections = <<>> THEN <<>>
    ELSE LET sorted_sections == SortedByStart(sections)
         IN  MergeFrom(Tail(sorted_sections), sorted_sections[1][1], sorted_sections[1][2])

AudioStart == ducking.audio_info.timeline_in_seconds
AudioEnd ==
    ducking.audio_info.source_out_seconds - ducking.audio_info.source_in_seconds + AudioStart

\* the section of the current iteration, clipped to the audio bounds
ClippedStart == Max(ducking.merged_dialogue[ducking.section][1], AudioStart)
ClippedEnd == Min(ducking.merged_dialogue[ducking.section][2], AudioEnd)
OutsideAudio == ClippedStart >= AudioEnd \/ ClippedEnd <= AudioStart

InitDuck ==
    /\ manifest = [music |-> NoMusic, clips |-> <<>>]
    /\ style = GateStyle
    /\ InitLocals
    /\ \E info \in AudioInfos \cup {ExampleTrack},
          sections \in WindowLists \cup {ExampleWindows}, rate \in FrameRates :
          ducking = [NoDucking EXCEPT !.pc = "start", !.audio_info = info,
                                      !.dialogue_sections = sections,
                                      !.frame_rate = rate]

MergeSections ==
    /\ ducking.pc = "start"
    /\ ducking' = [ducking EXCEPT
           !.pc = "loop",
           !.merged_dialogue = MergeOverlappingSections(ducking.dialogue_sections),
           !.current_pos = AudioStart,
           !.section = 1]
    /\ UNCHANGED <<job, completed, planVars, gateVars>>

\* "continue  # Outside audio range"
SectionOutside ==
    /\ ducking.pc = "loop"
    /\ ducking.section <= Len(ducking.merged_dialogue)
    /\ OutsideAudio
    /\ ducking' = [ducking EXCEPT !.section = @ + 1]
    /\ UNCHANGED <<job, completed, planVars, gateVars>>

SectionSegments ==
    /\ ducking.pc = "loop"
    /\ ducking.section <= Len(ducking.merged_dialogue)
    /\ ~OutsideAudio
    /\ ducking' = [ducking EXCEPT
           !.segments =
               @ \o (IF ClippedStart > ducking.current_pos
                     THEN <<<<ducking.current_pos, ClippedStart, FULL_VOLUME>>>>
                     ELSE <<>>)
                 \o (IF ClippedEnd > ClippedStart
                     THEN <<<<ClippedStart, ClippedEnd, DUCK_VOLUME>>>>
                     ELSE <<>>),
           !.current_pos = ClippedEnd,
           !.section = @ + 1]
    /\ UNCHANGED <<job, completed, planVars, gateVars>>

FinishSegments ==
    /\ ducking.pc = "loop"
    /\ ducking.section > Len(ducking.merged_dialogue)
    /\ LET with_final == IF ducking.current_pos < AudioEnd
                         THEN ducking.segments
                              \o <<<<ducking.current_pos, AudioEnd, FULL_VOLUME>>>>
                         ELSE ducking.segments
       IN  ducking' = [ducking EXCEPT
               !.pc = "built",
               !.segments = IF with_final = <<>>
                            THEN <<<<AudioStart, AudioEnd, FULL_VOLUME>>>>
                            ELSE with_final]
    /\ UNCHANGED <<job, completed, planVars, gateVars>>

\* variant of SubClips that reads the source at the segment's timeline position
RECURSIVE SubClipsAtTimelinePosition(_, _, _)
SubClipsAtTimelinePosition(segments, source_cursor, frame_rate) ==
    IF segments = <<>> THEN <<>>
    ELSE LET seg_duration == Head(segments)[2] - Head(segments)[1]
         IN  IF seg_duration <= 0
             THEN SubClipsAtTimelinePosition(Tail(segments), source_cursor, frame_rate)
             ELSE <<[start_time |-> Head(segments)[1] * frame_rate,
                     duration |-> seg_duration * frame_rate,
                     rate |-> frame_rate,
                     volume |-> Head(segments)[3]]>>
                  \o SubClipsAtTimelinePosition(Tail(segments),
                                                source_cursor + seg_duration, frame_rate)
\* lines 224-258: one clip per segment of positive length; its source_range is
\* RationalTime(source_cursor * frame_rate, frame_rate) for
\* RationalTime(seg_duration * frame_rate, frame_rate)
RECURSIVE SubClips(_, _, _)
SubClips(segments, source_cursor, frame_rate) ==
    IF segments = <<>> THEN <<>>
    ELSE LET seg_duration == Head(segments)[2] - Head(segments)[1]
         IN  IF seg_duration <= 0
             THEN SubClips(Tail(segments), source_cursor, frame_rate)
             ELSE <<[start_time |-> source_cursor * frame_rate,
                     duration |-> seg_duration * frame_rate,
                     rate |-> frame_rate,
                     volume |-> Head(segments)[3]]>>
                  \o SubClips(Tail(segments), source_cursor + seg_duration, frame_rate)

CreateClips ==
    /\ ducking.pc = "built"
    /\ ducking' = [ducking EXCEPT
           !.pc = "clips",
           !.clips = SubClips(ducking.segments, ducking.audio_info.source_in_seconds,
                              ducking.frame_rate)]
    /\ UNCHANGED <<job, completed, planVars, gateVars>>

NextDuck ==
    \/ MergeSections
    \/ SectionOutside
    \/ SectionSegments
    \/ FinishSegments
    \/ CreateClips

SpecDuck == InitDuck /\ [][NextDuck]_vars

(* C13: the segments built for a track tile it: the first starts at        *)
(* timeline_in, each next one starts where the one before ends, the last   *)
(* ends at timeline_in + (source_out - source_in), none runs backwards.    *)
DuckingCoverage ==
    ducking.pc = "built" =>
        LET segs == ducking.segments
        IN  /\ segs # <<>>
            /\ segs[1][1] = AudioStart
            /\ segs[Len(segs)][2] = AudioEnd
            /\ \A k \in DOMAIN segs : segs[k][1] <= segs[k][2]
            /\ \A k \in 1..(Len(segs) - 1) : segs[k + 1][1] = segs[k][2]

\* two windows given out of order that overlap, one reaching past the track
UnsortedOverlappingWindowsTiled ==
    /\ ducking.pc = "built"
    /\ Len(ducking.dialogue_sections) = 2
    /\ ducking.dialogue_sections[2][1] < ducking.dialogue_sections[1][1]
    /\ ducking.dialogue_sections[1][1] < ducking.dialogue_sections[2][2]
    /\ ducking.dialogue_sections[1][2] > AudioEnd
    /\ AudioStart < ducking.dialogue_sections[2][1]
    /\ Len(ducking.segments) = 2

(* C14: a built segment has the duck volume exactly when it overlaps some  *)
(* dialogue window and full volume otherwise; the 12 s track with window   *)
(* [3,5] gives (0,3,full), (3,5,duck), (5,12,full); when no window         *)
(* intersects the track there is one full-volume segment over the track.   *)
DuckingVolumes ==
    ducking.pc = "built" =>
        LET segs == ducking.segments
            sections == ducking.dialogue_sections
            \* a segment and a window share more than a point
            Overlaps(seg, w) == Max(seg[1], w[1]) < Min(seg[2], w[2])
            \* a window and the track share at least a point
            IntersectsTrack(w) == w[1] <= AudioEnd /\ w[2] >= AudioStart
        IN  /\ \A k \in DOMAIN segs :
                  segs[k][3] = IF \E j \in DOMAIN sections : Overlaps(segs[k], sections[j])
                               THEN DUCK_VOLUME ELSE FULL_VOLUME
            /\ (ducking.audio_info = ExampleTrack /\ sections = ExampleWindows)
                  => segs = <<<<0, 3, FULL_VOLUME>>, <<3, 5, DUCK_VOLUME>>,
                              <<5, 12, FULL_VOLUME>>>>
            /\ (\A j \in DOMAIN sections : ~IntersectsTrack(sections[j]))
                  => segs = <<<<AudioStart, AudioEnd, FULL_VOLUME>>>>

ExampleTrackDucked ==
    /\ ducking.pc = "built"
    /\ ducking.audio_info = ExampleTrack
    /\ ducking.dialogue_sections = ExampleWindows
    /\ Len(ducking.segments) = 3

\* a cut-point call of the current chunk has failed terminally, or the
\* exception has already left assemble from within a chunk
ChunkFailed ==
    \/ fanout = "cut" /\ \E i \in DOMAIN tasks : tasks[i].st = "failed"
    \/ pc = "raised" /\ chunk_locals # NoLocals

(* C15: once a cut-point call of a chunk has failed terminally, the chunk  *)
(* is never completed: no ChunkDecisions of that chunk is recorded, the    *)
(* timeline cursor stays where it was when the chunk began, the loop does  *)
(* not move on and no blueprint is returned.                               *)
ChunkFailureSemantics ==
    ChunkFailed =>
        /\ \A k \in DOMAIN chunk_decisions_list :
              chunk_decisions_list[k].chunk_index # chunk_locals.chunk_index
        /\ timeline_cursor = chunk_locals.timeline_cursor
        /\ chunk_idx = chunk_locals.chunk_index
        /\ blueprint = <<>>
        /\ pc \in {"loop", "raised"}

\* the exception left assemble from the second chunk after the worker failed
\* for one clip while another clip of the chunk had its cut points
RaisedAfterSiblingSucceeded ==
    /\ pc = "raised"
    /\ chunk_locals.chunk_index = 1
    /\ timeline_cursor > 0
    /\ \E i \in DOMAIN tasks : tasks[i].st = "failed" /\ tasks[i].error = "worker"
    /\ \E i \in DOMAIN tasks : tasks[i].st = "done"

(* C16: with no audio asset in the manifest, assemble raises at once: no   *)
(* boundary is built, no clip is classified, the gate is never created, no *)
(* judgment call is issued, no chunk is processed, no blueprint returned.  *)
MissingAudioRaises ==
    ~manifest.music.has_audio =>
        /\ pc \in {"start", "raised"}
        /\ chunk_boundaries = <<>>
        /\ clip_classifications = <<>>
        /\ api_semaphore = <<>>
        /\ tasks = <<>>
        /\ fanout = "none"
        /\ chunk_idx = 0
        /\ clip_cursor = 0
        /\ chunk_locals = NoLocals
        /\ chunk_decisions_list = <<>>
        /\ blueprint = <<>>

\* assemble has raised on a manifest with clips and no audio asset
MissingAudioRaised ==
    /\ ~manifest.music.has_audio
    /\ NumClips > 0
    /\ pc = "raised"

(* C17: with a music track of total duration 0, assemble raises an input   *)
(* error before any chunk is processed and returns no blueprint.           *)
ZeroDurationRaises ==
    (manifest.music.has_audio /\ manifest.music.duration_seconds = 0) =>
        /\ pc \in {"start", "raised"}
        /\ chunk_idx = 0
        /\ chunk_decisions_list = <<>>
        /\ blueprint = <<>>

(* C18: in a returned blueprint, total_duration_seconds is the final       *)
(* timeline cursor and the greatest timeline_out_seconds of all decisions  *)
(* (0 when there are none), the decisions start at 0, and each audio       *)
(* track's source_out is min(audio duration, final cursor).                *)
BlueprintCoverage ==
    pc = "done" =>
        LET bp == blueprint[1]
            ds == Flatten(bp.chunk_decisions)
        IN  /\ bp.total_duration_seconds = timeline_cursor
            /\ bp.total_duration_seconds = (IF ds = <<>> THEN 0 ELSE MaxTimelineOut(ds))
            /\ ds # <<>> => \E i \in DOMAIN ds : ds[i].timeline_in_seconds = 0
            /\ \A t \in DOMAIN bp.audio_tracks :
                  bp.audio_tracks[t].source_out_seconds
                      = Min(bp.audio_tracks[t].duration_seconds, timeline_cursor)

\* TimelineBlueprint's computed views (cut_decision.py lines 91-105)
all_decisions(bp) == Flatten(bp.chunk_decisions)
dialogue_decisions(bp) == SelectSeq(all_decisions(bp), LAMBDA d : d.clip_type = "DIALOGUE")
broll_decisions(bp) == SelectSeq(all_decisions(bp), LAMBDA d : d.clip_type = "BROLL")

(* C19: all_decisions of a returned blueprint holds every decision of      *)
(* every chunk once, in non-decreasing order of timeline_in_seconds, and   *)
(* dialogue_decisions and broll_decisions split it in two.                 *)
AllDecisionsOrdered ==
    pc = "done" =>
        LET bp == blueprint[1]
            all == all_decisions(bp)
        IN  /\ Len(all) = Len(Decisions)
            /\ \A k \in DOMAIN bp.chunk_decisions :
                  \A n \in DOMAIN bp.chunk_decisions[k].decisions :
                      Cardinality({i \in DOMAIN all :
                                      all[i] = bp.chunk_decisions[k].decisions[n]}) = 1
            /\ \A i, j \in DOMAIN all :
                  i < j => all[i].timeline_in_seconds <= all[j].timeline_in_seconds
            /\ Len(dialogue_decisions(bp)) + Len(broll_decisions(bp)) = Len(all)
            /\ \A i \in DOMAIN dialogue_decisions(bp), j \in DOMAIN broll_decisions(bp) :
                  dialogue_decisions(bp)[i] # broll_decisions(bp)[j]

\* the beats of the last chunk, as a set
ChunkBeatSet == {chunk_locals.chunk_beats[b] : b \in 1..Len(chunk_locals.chunk_beats)}

(* C20: a B-roll decision of a chunk with beats, alignment on, starts on   *)
(* the beat nearest to the cursor and ends on the first beat at or after   *)
(* that start plus the clip duration (the last beat if none follows) when  *)
(* that span is at least 0.25 s; otherwise it starts at the cursor with    *)
(* the clamped cut points unchanged.                                       *)
HardDualSnap ==
    LET NearestBeats(t) ==
            {b \in ChunkBeatSet : \A c \in ChunkBeatSet : Abs(b - t) <= Abs(c - t)}
        NextBeatAtOrAfter(t) ==
            LET later == {b \in ChunkBeatSet : b >= t}
            IN  IF later # {} THEN CHOOSE b \in later : \A c \in later : b <= c
                ELSE CHOOSE b \in ChunkBeatSet : \A c \in ChunkBeatSet : b >= c
    IN
    (LastChunkProcessed /\ AlignToBeats(style) /\ chunk_locals.chunk_beats # <<>>) =>
        \A k \in 1..Len(LastDecisions) :
            LET d == LastDecisions[k]
                cp == chunk_locals.cut_point_results[d.clip_index]
                source_in == ClampSourceIn(cp)
                source_out == ClampSourceOut(cp, ClipOf(d).duration_seconds)
            IN  d.clip_type = "BROLL" =>
                    \E t_in \in NearestBeats(RunningCursor(k)) :
                        LET t_out == NextBeatAtOrAfter(t_in + (source_out - source_in))
                        IN  IF t_out - t_in >= MIN_BEAT_SPAN
                            THEN /\ d.timeline_in_seconds = t_in
                                 /\ d.timeline_out_seconds = t_out
                                 /\ d.timeline_in_seconds \in ChunkBeatSet
                                 /\ d.timeline_out_seconds \in ChunkBeatSet
                            ELSE /\ d.timeline_in_seconds = RunningCursor(k)
                                 /\ d.source_in_seconds = source_in
                                 /\ d.source_out_seconds = source_out

PreClassification ==
    /\ fanout = "classify" =>
          /\ DOMAIN tasks = ClipIndices
          /\ pc = "classify"
          /\ clip_classifications = <<>>
          /\ chunk_locals = NoLocals
          /\ chunk_decisions_list = <<>>
    /\ pc \in {"loop", "done"} => DOMAIN clip_classifications = ClipIndices
    /\ fanout = "cut" =>
          /\ pc = "loop"
          /\ DOMAIN tasks = chunk_locals.first_clip..
                                (chunk_locals.first_clip + chunk_locals.clip_count - 1)
          /\ DOMAIN tasks \subseteq DOMAIN clip_classifications
    /\ \A i \in DOMAIN Decisions :
          Decisions[i].clip_type = clip_classifications[Decisions[i].clip_index]

\* a blueprint was returned that leaves a classified clip out, with decisions of
\* both clip types
ClassifiedClipLeftOut ==
    /\ pc = "done"
    /\ Len(Decisions) < NumClips
    /\ \E i, j \in DOMAIN Decisions :
          Decisions[i].clip_type = "DIALOGUE" /\ Decisions[j].clip_type = "BROLL"

-----------------------------------------------------------------------------
(* The fan-outs against a judgment service that answers deterministically  *)
(* per clip; the order in which the calls complete is recorded.            *)

MaxOrderClips == 3

\* the service's answer for clip i
ServiceClassification(i) == IF i % 2 = 0 THEN "DIALOGUE" ELSE "BROLL"
ServiceCutPoints(i) == [source_in_seconds |-> 0, source_out_seconds |-> 20 - 4 * i]

InitOrder ==
    /\ \E m \in GateMusics, n \in 0..MaxOrderClips :
          manifest = [music |-> m, clips |-> [i \in 1..n |-> GateClip]]
    /\ style = GateStyle
    /\ InitLocals
    /\ ducking = NoDucking

\* line 34 with the deterministic service: the call returns its clip's answer
CallAnswers(i) ==
    /\ tasks[i].st = "inflight"
    /\ LeaveGate(i, [tasks EXCEPT
                        ![i].st = "done",
                        ![i].result = <<IF fanout = "classify" THEN ServiceClassification(i)
                                        ELSE ServiceCutPoints(i)>>])
    /\ completed' = Append(completed, i)
    /\ UNCHANGED <<job, ducking, planVars, fanout>>

NextOrder ==
    \/ BuildBoundaries
    \/ StartClassify
    \/ FinishClassify
    \/ SkipChunk
    \/ StartChunk
    \/ FinishChunk
    \/ GatherRaises
    \/ ReturnBlueprint
    \/ \E i \in DOMAIN tasks :
          \/ TaskStarts(i)
          \/ CallAnswers(i)
          \/ CallFailsTransient(i)
          \/ CallFailsFatal(i)
          \/ BackoffEnds(i)

SpecOrder == InitOrder /\ [][NextOrder]_vars

(* C23: with a service that answers deterministically per clip, the stored *)
(* classifications are the service's answers keyed by clip index and the   *)
(* returned blueprint is the one the sequential pass builds from the       *)
(* answers keyed by clip index, whatever the order of completion and       *)
(* whatever transient failures were retried.                               *)
CompletionOrderIndependence ==
    LET RECURSIVE Expected(_, _, _)
        Expected(ci, cc, tc) ==
            IF ci >= TotalChunks THEN [chunks |-> <<>>, cursor |-> tc]
            ELSE IF NumClips - cc <= 0 THEN Expected(ci + 1, cc, tc)
            ELSE LET chunk_start == chunk_boundaries[ci + 1]
                     chunk_end == chunk_boundaries[ci + 2]
                     count == Min(TargetClipCount(chunk_end - chunk_start, style,
                                                  NumClips - cc, TotalChunks - ci),
                                  NumClips - cc)
                     loc == [NoLocals EXCEPT
                                !.chunk_index = ci,
                                !.chunk_start = chunk_start,
                                !.chunk_end = chunk_end,
                                !.chunk_beats = ChunkBeats(manifest.music.beat_grid,
                                                           chunk_start, chunk_end),
                                !.clip_count = count,
                                !.first_clip = cc,
                                !.timeline_cursor = tc]
                     cd == ChunkDecisions(loc, [i \in cc..(cc + count - 1)
                                                   |-> ServiceCutPoints(i)])
                     rest == Expected(ci + 1, cc + count,
                                      NewTimelineCursor(tc, cd.decisions))
                 IN  [chunks |-> <<cd>> \o rest.chunks, cursor |-> rest.cursor]
    IN  /\ pc \in {"loop", "done"} =>
              clip_classifications = [i \in ClipIndices |-> ServiceClassification(i)]
        /\ pc = "done" =>
              blueprint = <<[total_duration_seconds |-> Expected(0, 0, 0).cursor,
                             chunk_decisions |-> Expected(0, 0, 0).chunks,
                             audio_tracks |-> AudioTracks(Expected(0, 0, 0).cursor)]>>

\* a blueprint was returned for a chunk of three clips whose cut points arrived
\* last clip first, first clip last
LastClipAnsweredFirst ==
    /\ pc = "done"
    /\ NumClips = 3
    /\ Len(Decisions) = 3
    /\ completed # <<>>
    /\ completed[1] = 2
    /\ completed[Len(completed)] = 0

(* C24: the merged windows are sorted by start, each starts strictly after *)
(* the one before ends, their union is the union of the given windows,     *)
(* merging them again changes nothing, and every reordering of the given   *)
(* windows merges to the same list.                                        *)
MergeNormalForm ==
    ducking.pc \in {"loop", "built"} =>
        LET given == ducking.dialogue_sections
            merged == ducking.merged_dialogue
            n == Len(given)
            \* twice the greatest time in use, so that midpoints are covered too
            HalfSteps == 0..(2 * 12)
            Covers(ws, x) == \E k \in DOMAIN ws : 2 * ws[k][1] <= x /\ x <= 2 * ws[k][2]
            Reorderings == {p \in [1..n -> 1..n] : \A a, b \in 1..n : p[a] = p[b] => a = b}
        IN  /\ \A k \in DOMAIN merged : merged[k][1] <= merged[k][2]
            /\ \A k \in 1..(Len(merged) - 1) : merged[k + 1][1] > merged[k][2]
            /\ \A x \in HalfSteps : Covers(merged, x) <=> Covers(given, x)
            /\ MergeOverlappingSections(merged) = merged
            /\ \A p \in Reorderings :
                  MergeOverlappingSections([k \in 1..n |-> given[p[k]]]) = merged

\* two windows given later one first, the second ending where the first
\* starts, merged into one
AdjacentUnsortedMerged ==
    /\ ducking.pc = "loop"
    /\ Len(ducking.dialogue_sections) = 2
    /\ ducking.dialogue_sections[2][1] < ducking.dialogue_sections[2][2]
    /\ ducking.dialogue_sections[2][2] = ducking.dialogue_sections[1][1]
    /\ ducking.dialogue_sections[1][1] < ducking.dialogue_sections[1][2]
    /\ Len(ducking.merged_dialogue) = 1

(* C25: no two consecutive segments built for a track carry the same       *)
(* volume.                                                                 *)
VolumesAlternate ==
    ducking.pc = "built" =>
        \A k \in 1..(Len(ducking.segments) - 1) :
            ducking.segments[k][3] # ducking.segments[k + 1][3]

(* C26: the sub-clips of a track reference the source contiguously: the    *)
(* first starts at source_in, each next one starts where the one before    *)
(* ends, each has positive duration, the last ends at source_out (times in *)
(* frames at the clip's rate).                                             *)
SourceContiguity ==
    ducking.pc = "clips" =>
        LET clips == ducking.clips
            info == ducking.audio_info
        IN  /\ \A k \in DOMAIN clips : clips[k].duration > 0
            /\ \A k \in 1..(Len(clips) - 1) :
                  clips[k + 1].start_time = clips[k].start_time + clips[k].duration
            /\ clips # <<>> =>
                  /\ clips[1].start_time = info.source_in_seconds * clips[1].rate
                  /\ clips[Len(clips)].start_time + clips[Len(clips)].duration
                         = info.source_out_seconds * clips[Len(clips)].rate
            /\ info.source_out_seconds > info.source_in_seconds => clips # <<>>

\* three sub-clips were cut from a source that does not start at 0, for a track
\* that does not start at 0
ThreeSubClipsFromOffsetSource ==
    /\ ducking.pc = "clips"
    /\ ducking.audio_info.source_in_seconds > 0
    /\ ducking.audio_info.timeline_in_seconds > 0
    /\ Len(ducking.clips) = 3

(* C27: a task sleeping in backoff holds no slot of the gate: the slots    *)
(* taken are exactly those of the calls in flight, a task waits at the     *)
(* gate only while MAX_CONCURRENT_API_CALLS calls are in flight, and once  *)
(* a fan-out has ended, by return or by exception, every slot is free.     *)
BackoffHoldsNoSlot ==
    LET Sleeping == {i \in DOMAIN tasks : tasks[i].st = "backoff"}
        Ended == {i \in DOMAIN tasks : tasks[i].st \in {"done", "failed", "cancelled"}}
        Calling == DOMAIN tasks \ (Sleeping \cup Ended \cup Waiting(tasks)
                                     \cup {i \in DOMAIN tasks : tasks[i].st = "new"})
    IN  api_semaphore # <<>> =>
            /\ MAX_CONCURRENT_API_CALLS - api_semaphore[1] = Cardinality(Calling)
            /\ (fanout # "none" /\ Waiting(tasks) # {}) =>
                  Cardinality(Calling) = MAX_CONCURRENT_API_CALLS
            /\ fanout = "none" => api_semaphore[1] = MAX_CONCURRENT_API_CALLS

\* as many tasks sleep in backoff as the gate has slots, and a further call is
\* in flight with a slot still free
AllSlotsWorthOfSleepers ==
    /\ fanout # "none"
    /\ Cardinality({i \in DOMAIN tasks : tasks[i].st = "backoff"})
           = MAX_CONCURRENT_API_CALLS
    /\ InFlight = 1
    /\ api_semaphore[1] = 1

(* C28: when there are at least as many clips as chunks, every iteration   *)
(* of the chunk loop starts with remaining_clips >= remaining_chunks, no   *)
(* chunk is skipped and each chunk takes at least one clip; and a chunk    *)
(* with remaining_clips > 0 takes between 1 and remaining_clips clips.     *)
EvenExhaustion ==
    /\ (pc \in {"loop", "done"} /\ NumClips >= TotalChunks) =>
          /\ NumClips - clip_cursor >= TotalChunks - chunk_idx
          /\ chunk_idx < TotalChunks => NumClips - clip_cursor > 0
          /\ Len(chunk_decisions_list) = chunk_idx
          /\ chunk_locals # NoLocals =>
                chunk_locals.remaining_clips >= chunk_locals.remaining_chunks
    /\ (chunk_locals # NoLocals /\ chunk_locals.remaining_clips > 0) =>
          /\ 1 <= chunk_locals.clip_count
          /\ chunk_locals.clip_count <= chunk_locals.remaining_clips

\* two chunks were served from two clips although the first chunk alone had
\* room for both at the target duration
LongFirstChunkLeftAClip ==
    /\ pc = "done"
    /\ TotalChunks = 2
    /\ NumClips = 2
    /\ chunk_locals.chunk_index = 1
    /\ chunk_locals.clip_count = 1
    /\ (chunk_boundaries[2] - chunk_boundaries[1]) \div TargetCutDuration(style) >= 2

(***************************************************************************)
(* The job routes and the JobRunner: one job, the start, resume and cancel *)
(* requests on it and the background tasks they add.  A handler runs from  *)
(* one await to the next without interruption; between get_job and the    *)
(* write of the stage other handlers and runners take their steps.         *)
(***************************************************************************)
MaxRequests == 3

\* number of uploaded files of the job: none, or a video and a music track
FileCounts == {0, 2}

\* jobs.py line 272: stages from which start_job accepts
StartableStages == {"CREATED", "COMPLETED", "FAILED", "CANCELLED"}

\* jobs.py line 319: stages in which cancel_job answers "Job is not running"
NotRunningStages == {"CREATED", "COMPLETED", "FAILED", "CANCELLED"}

\* jobs.py lines 339-347
resumable_stages ==
    {"QUEUED", "DOWNLOADING_FILES", "ANNOTATING_ASSETS", "PLANNING_EDITS",
     "EXECUTING_TIMELINE", "UPLOADING_RESULT", "FAILED"}

InitJobs ==
    /\ manifest = [music |-> NoMusic, clips |-> <<>>]
    /\ style = GateStyle
    /\ InitLocalsOfAssemble
    /\ ducking = NoDucking
    /\ \E n \in FileCounts : job = [NoJob EXCEPT !.total_files = n]

\* a handler has passed its checks and is waiting in its repository call
Accept(j, kind) ==
    [j EXCEPT !.requests = j.requests + 1, !.accepted[kind] = j.accepted[kind] + 1]

\* a handler has answered with an HTTPException
Reject(j) == [j EXCEPT !.requests = j.requests + 1]

\* job_repository.py lines 227-254 (and 217-224, 339-345): the stage is written
WriteStage(j, stage, writer) == [j EXCEPT !.stage = stage, !.last_writer = writer]

\* a runner moves from one position of run() to another
MoveRunner(j, from, to) ==
    [j EXCEPT !.runners = [j.runners EXCEPT ![from] = j.runners[from] - 1,
                                             ![to] = j.runners[to] + 1]]

\* run() returns or raises: the background task ends
EndRunner(j, from) == [j EXCEPT !.runners[from] = j.runners[from] - 1]

\* jobs.py lines 295-296 and 362-363: background_tasks.add_task(_run_job, runner)
AddRunner(j, kind) ==
    [j EXCEPT !.accepted[kind] = j.accepted[kind] - 1,
              !.runners["scheduled"] = j.runners["scheduled"] + 1]

\* jobs.py lines 266-283: get_job and the checks of start_job
StartJobRequest ==
    /\ job.requests < MaxRequests
    /\ job' = IF job.stage \in StartableStages /\ job.total_files > 0
              THEN Accept(job, "start")
              ELSE Reject(job)
    /\ UNCHANGED <<completed, ducking, planVars, gateVars>>

\* jobs.py lines 286-298: start_processing sets QUEUED, the runner is added
StartJobProcessing ==
    /\ job.accepted["start"] > 0
    /\ job' = AddRunner(WriteStage(job, "QUEUED", "start"), "start")
    /\ UNCHANGED <<completed, ducking, planVars, gateVars>>

\* jobs.py lines 315-320: get_job and the check of cancel_job
CancelJobRequest ==
    /\ job.requests < MaxRequests
    /\ job' = IF job.stage \in NotRunningStages
              THEN Reject(job)
              ELSE Accept(job, "cancel")
    /\ UNCHANGED <<completed, ducking, planVars, gateVars>>

\* jobs.py lines 322-324: update_stage(job_id, CANCELLED)
CancelJobUpdate ==
    /\ job.accepted["cancel"] > 0
    /\ job' = [WriteStage(job, "CANCELLED", "cancel") EXCEPT
                  !.accepted["cancel"] = job.accepted["cancel"] - 1]
    /\ UNCHANGED <<completed, ducking, planVars, gateVars>>

\* jobs.py lines 334-353: get_job and the check of resume_job
ResumeJobRequest ==
    /\ job.requests < MaxRequests
    /\ job' = IF job.stage \in resumable_stages
              THEN Accept(job, "resume")
              ELSE Reject(job)
    /\ UNCHANGED <<completed, ducking, planVars, gateVars>>

\* jobs.py lines 356-365: update_stage(job_id, QUEUED), the runner is added
ResumeJobQueued ==
    /\ job.accepted["resume"] > 0
    /\ job' = AddRunner(WriteStage(job, "QUEUED", "resume"), "resume")
    /\ UNCHANGED <<completed, ducking, planVars, gateVars>>

\* job_runner.py lines 54-91: the job and its checkpoints are loaded
RunnerLoads ==
    /\ job.runners["scheduled"] > 0
    /\ job' = MoveRunner(job, "scheduled",
                         IF job.blueprint_id THEN "has_blueprint"
                         ELSE IF job.manifest_id THEN "has_manifest"
                         ELSE "fresh")
    /\ UNCHANGED <<completed, ducking, planVars, gateVars>>

\* job_runner.py lines 94-102: no manifest, stage 1 begins
RunnerDownloads ==
    /\ job.runners["fresh"] > 0
    /\ job' = MoveRunner(WriteStage(job, "DOWNLOADING_FILES", "runner"),
                         "fresh", "downloading")
    /\ UNCHANGED <<completed, ducking, planVars, gateVars>>

\* job_runner.py lines 111-123: the files are downloaded, stage 2 begins
RunnerAnnotates ==
    /\ job.runners["downloading"] > 0
    /\ job' = MoveRunner(WriteStage(job, "ANNOTATING_ASSETS", "runner"),
                         "downloading", "annotating")
    /\ UNCHANGED <<completed, ducking, planVars, gateVars>>

\* job_runner.py lines 125-139: the assets are annotated, checkpoint 1 is saved
RunnerSavesManifest ==
    /\ job.runners["annotating"] > 0
    /\ job' = MoveRunner([job EXCEPT !.manifest_id = TRUE],
                         "annotating", "has_manifest")
    /\ UNCHANGED <<completed, ducking, planVars, gateVars>>

\* job_runner.py lines 142-144: no blueprint, stage 3 begins
RunnerPlans ==
    /\ job.runners["has_manifest"] > 0
    /\ job' = MoveRunner(WriteStage(job, "PLANNING_EDITS", "runner"),
                         "has_manifest", "planning")
    /\ UNCHANGED <<completed, ducking, planVars, gateVars>>

\* job_runner.py lines 226-249: assemble() has returned, checkpoint 2 is saved
RunnerSavesBlueprint ==
    /\ job.runners["planning"] > 0
    /\ job' = MoveRunner([job EXCEPT !.blueprint_id = TRUE],
                         "planning", "has_blueprint")
    /\ UNCHANGED <<completed, ducking, planVars, gateVars>>

\* job_runner.py lines 256-258: stage 4 begins
RunnerExecutes ==
    /\ job.runners["has_blueprint"] > 0
    /\ job' = MoveRunner(WriteStage(job, "EXECUTING_TIMELINE", "runner"),
                         "has_blueprint", "executing")
    /\ UNCHANGED <<completed, ducking, planVars, gateVars>>

\* job_runner.py lines 269-281: the OTIO file is written, stage 5 begins
RunnerUploads ==
    /\ job.runners["executing"] > 0
    /\ job' = MoveRunner(WriteStage(job, "UPLOADING_RESULT", "runner"),
                         "executing", "uploading")
    /\ UNCHANGED <<completed, ducking, planVars, gateVars>>

\* job_runner.py lines 289-305: the result is uploaded, the job is COMPLETED
RunnerCompletes ==
    /\ job.runners["uploading"] > 0
    /\ job' = EndRunner(WriteStage(job, "COMPLETED", "runner"), "uploading")
    /\ UNCHANGED <<completed, ducking, planVars, gateVars>>

\* job_runner.py lines 307-310: a stage raises, set_error marks the job FAILED
RunnerFails(p) ==
    /\ job.runners[p] > 0
    /\ job' = EndRunner(WriteStage(job, "FAILED", "runner"), p)
    /\ UNCHANGED <<completed, ducking, planVars, gateVars>>

NextJobs ==
    \/ StartJobRequest
    \/ StartJobProcessing
    \/ CancelJobRequest
    \/ CancelJobUpdate
    \/ ResumeJobRequest
    \/ ResumeJobQueued
    \/ RunnerLoads
    \/ RunnerDownloads
    \/ RunnerAnnotates
    \/ RunnerSavesManifest
    \/ RunnerPlans
    \/ RunnerSavesBlueprint
    \/ RunnerExecutes
    \/ RunnerUploads
    \/ RunnerCompletes
    \/ \E p \in {"downloading", "annotating", "planning", "executing", "uploading"} :
          RunnerFails(p)

SpecJobs == InitJobs /\ [][NextJobs]_vars

(* C29: whatever start, resume and cancel requests are made on a job, at   *)
(* most one JobRunner is inside the pipeline of that job at any time.      *)
SingleRunnerPerJob ==
    LET RECURSIVE Count(_)
        Count(ps) == IF ps = {} THEN 0
                     ELSE LET p == CHOOSE q \in ps : TRUE
                          IN  job.runners[p] + Count(ps \ {p})
    IN  Count(RunnerPositions \ {"scheduled"}) <= 1

(* C30: once cancel_job has written CANCELLED, the stage stays CANCELLED   *)
(* and no checkpoint is written until start_job sets the job to QUEUED.    *)
CancellationSticks ==
    [][job.stage = "CANCELLED" =>
          \/ /\ job'.stage = "CANCELLED"
             /\ job'.manifest_id = job.manifest_id
             /\ job'.blueprint_id = job.blueprint_id
          \/ /\ job'.stage = "QUEUED"
             /\ job'.last_writer = "start"]_vars

====
